---- MODULE Spec2Model ----
(***************************************************************************)
(* Model of the 68HC11 pulse generator (src/pulse.c).                      *)
(*                                                                         *)
(* Two contexts share one CPU: main (startup, then the driver loop) and    *)
(* the OC4 interrupt handler output_compare_interrupt.  The timer          *)
(* hardware (free running counter TCNT, compare register TOC4, flag        *)
(* register TFLG1, pin PA4) is modelled as far as the program uses it.     *)
(*                                                                         *)
(* Time: CPU steps are instantaneous; the counter advances between them    *)
(* (Tick, WaitMatch).  The compare unit is evaluated over every interval   *)
(* the counter crosses, so a match falls on the exact tick TCNT = TOC4.    *)
(*                                                                         *)
(* Environment assumption: main is entered out of reset, with no timer     *)
(* flag pending and before the counter first reaches the reset value       *)
(* 0xFFFF of the compare registers.                                        *)
(***************************************************************************)
EXTENDS Integers, Sequences, FiniteSets

(* ------------------------------ bounds -------------------------------- *)

\* Spec stops the clock after this many OC4 compare matches.
MaxMatches == 16

\* Ticks that pass in one Tick step (time taken by the code around a step).
LatencyStep == 120

\* Most ticks that may pass between a compare match and the end of its service.
MaxLatency == 260

\* Most ticks that may pass during the startup sequence of main.
MaxStartup == 400

\* Most compare matches that may find the driver loop busy (not waiting for one).
MaxBusy == 2

(* ----------------------- constants of the program --------------------- *)

\* Width of the free running counter and of unsigned short.
Wrap == 65536

\* Width of unsigned char.
ByteWrap == 256

\* Mutant: the scale of a clock four times slower than the table assumes.
US_TO_CYCLE_SLOW(N) == N \div 2

US_TO_CYCLE(N) == N * 2

\* Mutant: the table with its sixth and seventh entries exchanged.
cycle_table_swapped ==
  << US_TO_CYCLE(500), US_TO_CYCLE(500), US_TO_CYCLE(500), US_TO_CYCLE(1000),
     US_TO_CYCLE(1000), US_TO_CYCLE(100), US_TO_CYCLE(5000), US_TO_CYCLE(500),
     US_TO_CYCLE(5000), US_TO_CYCLE(1000), US_TO_CYCLE(100), US_TO_CYCLE(100) >>

cycle_table ==
  << US_TO_CYCLE(500), US_TO_CYCLE(500), US_TO_CYCLE(500), US_TO_CYCLE(1000),
     US_TO_CYCLE(1000), US_TO_CYCLE(5000), US_TO_CYCLE(100), US_TO_CYCLE(500),
     US_TO_CYCLE(5000), US_TO_CYCLE(1000), US_TO_CYCLE(100), US_TO_CYCLE(100) >>

TABLE_SIZE(T) == Len(T)

\* The documented minimum of a table entry, in ticks.
MinTicks == 100

\* The startup margin added to the counter read at init.
StartMargin == 300

\* Iterations of the driver loop.
Iterations == 1000

\* Reset value of a compare register nobody programmed.
ResetCompare == 65535

\* cycle_next before main sets it: a null pointer (static storage).
NullCursor == -1

\* The counter values main may find at startup.
InitCounters == {0, 50000}

\* The "-\\|/" string indexed by (++i) & 3.
Spinner == << "-", "\\", "|", "/" >>

VARIABLES
  tcnt,         \* free running counter
  toc4,         \* OC4 compare register
  tflg1,        \* the timer flags pending in TFLG1
  tmsk1,        \* the timer interrupts enabled in TMSK1
  tctl1,        \* the pin actions selected in TCTL1
  pa4,          \* level of the PA4/OC4 pin
  ibit,         \* I bit of the condition code register (1: interrupts masked)
  vector,       \* handler installed in the OC4 vector
  cycle_next,   \* index of cycle_next in cycle_table
  change_time,
  wakeup,
  dt,           \* local of the handler
  hpc,          \* position of the handler
  mpc,          \* position of main
  j, c, i,      \* locals of main
  sent,         \* bytes handed to serial_send
  nMatch,       \* history: OC4 compare matches since startup
  nEntered,     \* history: invocations of the handler
  nHandled,     \* history: completed invocations of the handler
  sinceMatch,   \* history: ticks since the last match (since init before the first)
  lastGap,      \* history: ticks between the last two pin toggles
  nToggle,      \* history: pin toggles
  progs,        \* history: the last values written to TOC4, oldest first
  nProg,        \* history: writes to TOC4
  lateProg,     \* history: the last write to TOC4 came after the counter reached it
  gapLate,      \* history: lateProg of the write that programmed the last toggle
  everLate,     \* history: some handler wrote TOC4 late
  counterRead,  \* history: the value get_timer_counter returned to main
  nBusy,        \* history: matches that found the driver loop busy
  handledSinceClear, \* history: an invocation completed since the last wakeup = 0
  gaps          \* history: ticks between the last pin toggles, oldest first

hw == << tcnt, toc4, tflg1, tmsk1, tctl1, pa4, ibit, vector >>
sw == << cycle_next, change_time, wakeup, dt, hpc, mpc, j, c, i, sent >>
hist == << nMatch, nEntered, nHandled, sinceMatch, lastGap, nToggle, progs, nProg,
           lateProg, gapLate, everLate, counterRead, nBusy, handledSinceClear, gaps >>
vars == << hw, sw, hist >>

(* ------------------------------ helpers ------------------------------- *)

\* The other output compare flags of TFLG1; their registers keep the reset value.
OtherFlags == {"OC3F", "OC5F"}

\* Ticks until the counter next equals v (a full turn when it equals it now).
Dist(v) == ((v - tcnt - 1) % Wrap) + 1

\* The window of programmed values kept: one period and one more.
Remember(s, v) ==
  LET t == Append(s, v)
  IN  IF Len(t) > TABLE_SIZE(cycle_table) + 1 THEN Tail(t) ELSE t

\* The window of toggle spacings kept: one period of the table.
RememberGap(s, g) ==
  LET t == Append(s, g)
  IN  IF Len(t) > TABLE_SIZE(cycle_table) THEN Tail(t) ELSE t

\* An OC4 interrupt is requested and not masked.
Pending == "OC4F" \in tflg1 /\ "OC4I" \in tmsk1 /\ ibit = 0

Starting == mpc \in {"lock", "serial_init", "set_handler", "init_cursor", "tctl1",
                     "tmsk1", "read_counter", "set_oc4", "unlock"}

\* The driver loop spins on a clear flag with no OC4 event in service.
Quiescent == mpc = "spin" /\ wakeup = 0 /\ hpc = "idle" /\ "OC4F" \notin tflg1

\* The state main is entered in, with the counter at one of the values of S.
InitWith(S) ==
  /\ tcnt \in S
  /\ toc4 = ResetCompare
  /\ tflg1 = {}
  /\ tmsk1 = {}
  /\ tctl1 = {}
  /\ pa4 = 0
  /\ ibit \in {0, 1}
  /\ vector = "fatal_interrupt"
  /\ cycle_next = NullCursor
  /\ change_time = 0
  /\ wakeup = 0
  /\ dt = 0
  /\ hpc = "idle"
  /\ mpc = "lock"
  /\ j = 0 /\ c = 0 /\ i = 0
  /\ sent = << >>
  /\ nMatch = 0 /\ nEntered = 0 /\ nHandled = 0
  /\ sinceMatch = 0
  /\ lastGap = -1
  /\ nToggle = 0
  /\ progs = << >>
  /\ nProg = 0
  /\ lateProg = FALSE /\ gapLate = FALSE /\ everLate = FALSE
  /\ counterRead = -1
  /\ nBusy = 0
  /\ handledSinceClear = FALSE
  /\ gaps = << >>

Init == InitWith(InitCounters)

(* ------------------------------ hardware ------------------------------ *)

\* The counter advances n ticks (1 <= n <= Wrap) with no CPU step in between.
\* OC4 matches on the tick the counter equals TOC4: the flag is set and the pin
\* does what TCTL1 selects.  The unprogrammed channels match at their reset value.
Advance(n) ==
  LET d4     == Dist(toc4)
      hit    == n >= d4
      toggle == hit /\ "OL4" \in tctl1
      others == IF n >= Dist(ResetCompare) THEN OtherFlags ELSE {}
  IN  /\ tcnt' = (tcnt + n) % Wrap
      /\ tflg1' = tflg1 \cup (IF hit THEN {"OC4F"} ELSE {}) \cup others
      /\ pa4' = IF toggle THEN 1 - pa4 ELSE pa4
      /\ nMatch' = IF hit THEN nMatch + 1 ELSE nMatch
      /\ nToggle' = IF toggle THEN nToggle + 1 ELSE nToggle
      /\ lastGap' = IF toggle /\ nToggle > 0 THEN sinceMatch + d4 ELSE lastGap
      /\ gapLate' = IF toggle THEN lateProg ELSE gapLate
      /\ sinceMatch' = IF hit THEN n - d4 ELSE sinceMatch + n
      /\ nBusy' = IF hit /\ ~Quiescent THEN nBusy + 1 ELSE nBusy
      /\ gaps' = IF toggle /\ nToggle > 0
                   THEN RememberGap(gaps, sinceMatch + d4) ELSE gaps
      /\ UNCHANGED << toc4, tmsk1, tctl1, ibit, vector, sw, nEntered, nHandled,
                      progs, nProg, lateProg, everLate, counterRead,
                      handledSinceClear >>

\* The handler is running or about to be entered.
InService == hpc # "idle" \/ Pending

\* Time taken by the code: at startup from the read of the counter on (the time
\* before it only decides the value read), and from a match to the end of its service.
\* budget: whether a further compare match is within the bounds.
Tick(budget) ==
  /\ LatencyStep >= Dist(toc4) => budget
  /\ \/ mpc \in {"set_oc4", "unlock"} /\ sinceMatch + LatencyStep <= MaxStartup
     \/ ~Starting /\ InService /\ sinceMatch + LatencyStep <= MaxLatency
  /\ Advance(LatencyStep)

\* Main runs (or has returned) with nothing to serve until the next compare match.
WaitMatch(budget) ==
  /\ budget
  /\ ~Starting /\ ~InService
  /\ Advance(Dist(toc4))

(* ------------------------ output_compare_interrupt -------------------- *)

\* The CPU takes the OC4 interrupt between two instructions of main: it masks
\* further interrupts and enters the installed handler.
HandlerEntry ==
  /\ hpc = "idle" /\ Pending
  /\ vector = "output_compare_interrupt"
  /\ hpc' = "ack"
  /\ ibit' = 1
  /\ nEntered' = nEntered + 1
  /\ UNCHANGED << tcnt, toc4, tflg1, tmsk1, tctl1, pa4, vector, cycle_next,
                  change_time, wakeup, dt, mpc, j, c, i, sent, nMatch, nHandled,
                  sinceMatch, lastGap, nToggle, progs, nProg, lateProg, gapLate,
                  everLate, counterRead, nBusy,
                  handledSinceClear, gaps >>

\* The value the read-modify-write TFLG1 |= OC4F stores.
AckValue(reg) == reg \cup {"OC4F"}

\* A store to TFLG1 clears the flags written as 1 and leaves the others.
ClearFlags(reg, written) == reg \ written

\* _io_ports[M6811_TFLG1] |= M6811_OC4F;
HandlerAck ==
  /\ hpc = "ack"
  /\ tflg1' = ClearFlags(tflg1, AckValue(tflg1))
  /\ hpc' = "load"
  /\ UNCHANGED << tcnt, toc4, tmsk1, tctl1, pa4, ibit, vector, cycle_next,
                  change_time, wakeup, dt, mpc, j, c, i, sent, hist >>

\* dt = *cycle_next;
HandlerLoad ==
  /\ hpc = "load"
  /\ dt' = cycle_table[cycle_next + 1]
  /\ hpc' = "add"
  /\ UNCHANGED << hw, cycle_next, change_time, wakeup, mpc, j, c, i, sent, hist >>

\* Mutant: the new compare value taken from the running counter.
NextTargetFromCounter(d, prev) == (d + tcnt) % Wrap

\* The new compare value, in unsigned short arithmetic.
NextTarget(d, prev) == (d + prev) % Wrap

\* Mutant: a handler that notices the counter is past the new target and
\* re-arms from the counter instead.
HandlerAddCatchUp ==
  /\ hpc = "add"
  /\ dt' = IF (tcnt - change_time) % Wrap >= dt
             THEN (dt + tcnt) % Wrap
             ELSE NextTarget(dt, change_time)
  /\ hpc' = "setoc"
  /\ UNCHANGED << hw, cycle_next, change_time, wakeup, mpc, j, c, i, sent, hist >>

\* dt += change_time;
HandlerAdd ==
  /\ hpc = "add"
  /\ dt' = NextTarget(dt, change_time)
  /\ hpc' = "setoc"
  /\ UNCHANGED << hw, cycle_next, change_time, wakeup, mpc, j, c, i, sent, hist >>

\* Mutant: the handler computes the new value and leaves the register as it is.
HandlerSetOCSkipped ==
  /\ hpc = "setoc"
  /\ hpc' = "store"
  /\ UNCHANGED << hw, cycle_next, change_time, wakeup, dt, mpc, j, c, i, sent, hist >>

\* set_output_compare_4 (dt);
HandlerSetOC ==
  /\ hpc = "setoc"
  /\ toc4' = dt
  /\ hpc' = "store"
  /\ progs' = Remember(progs, dt)
  /\ nProg' = nProg + 1
  /\ lateProg' = (sinceMatch >= (dt - change_time) % Wrap)
  /\ everLate' = (everLate \/ lateProg')
  /\ UNCHANGED << tcnt, tflg1, tmsk1, tctl1, pa4, ibit, vector, cycle_next,
                  change_time, wakeup, dt, mpc, j, c, i, sent, nMatch, nEntered,
                  nHandled, sinceMatch, lastGap, nToggle, gapLate, counterRead,
                  nBusy,
                  handledSinceClear, gaps >>

\* Mutant: the new compare value is not carried over to the next interrupt.
HandlerStoreNothing ==
  /\ hpc = "store"
  /\ hpc' = "inc"
  /\ UNCHANGED << hw, cycle_next, change_time, wakeup, dt, mpc, j, c, i, sent, hist >>

\* change_time = dt;
HandlerStore ==
  /\ hpc = "store"
  /\ change_time' = dt
  /\ hpc' = "inc"
  /\ UNCHANGED << hw, cycle_next, wakeup, dt, mpc, j, c, i, sent, hist >>

\* Mutant: the flag is raised together with the increment, before the wrap test.
HandlerIncWaking ==
  /\ hpc = "inc"
  /\ cycle_next' = cycle_next + 1
  /\ wakeup' = 1
  /\ hpc' = "wrap"
  /\ UNCHANGED << hw, change_time, dt, mpc, j, c, i, sent, hist >>

\* cycle_next++;
HandlerInc ==
  /\ hpc = "inc"
  /\ cycle_next' = cycle_next + 1
  /\ hpc' = "wrap"
  /\ UNCHANGED << hw, change_time, wakeup, dt, mpc, j, c, i, sent, hist >>

\* Mutant: the end-of-table test is off by one.
WrapCursorLate(p) == IF p > TABLE_SIZE(cycle_table) THEN 0 ELSE p

\* The cursor after the end-of-table test.
WrapCursor(p) == IF p >= TABLE_SIZE(cycle_table) THEN 0 ELSE p

\* if (cycle_next >= &cycle_table[TABLE_SIZE (cycle_table)]) cycle_next = cycle_table;
HandlerWrap ==
  /\ hpc = "wrap"
  /\ cycle_next' = WrapCursor(cycle_next)
  /\ hpc' = "wake"
  /\ UNCHANGED << hw, change_time, wakeup, dt, mpc, j, c, i, sent, hist >>

\* Mutant: the handler returns without setting the flag.
HandlerWakeForgotten ==
  /\ hpc = "wake"
  /\ hpc' = "rti"
  /\ UNCHANGED << hw, cycle_next, change_time, wakeup, dt, mpc, j, c, i, sent, hist >>

\* wakeup = 1;
HandlerWake ==
  /\ hpc = "wake"
  /\ wakeup' = 1
  /\ hpc' = "rti"
  /\ UNCHANGED << hw, cycle_next, change_time, dt, mpc, j, c, i, sent, hist >>

\* Mutant: a handler that acknowledges the flag last, on its way out.
HandlerReturnAcking ==
  /\ hpc = "rti"
  /\ hpc' = "idle"
  /\ ibit' = 0
  /\ tflg1' = tflg1 \ {"OC4F"}
  /\ nHandled' = nHandled + 1
  /\ handledSinceClear' = TRUE
  /\ UNCHANGED << tcnt, toc4, tmsk1, tctl1, pa4, vector, cycle_next,
                  change_time, wakeup, dt, mpc, j, c, i, sent, nMatch, nEntered,
                  sinceMatch, lastGap, nToggle, progs, nProg, lateProg, gapLate,
                  everLate, counterRead, nBusy, gaps >>

\* Return from interrupt: the condition codes of main are restored.
HandlerReturn ==
  /\ hpc = "rti"
  /\ hpc' = "idle"
  /\ ibit' = 0
  /\ nHandled' = nHandled + 1
  /\ handledSinceClear' = TRUE
  /\ UNCHANGED << tcnt, toc4, tflg1, tmsk1, tctl1, pa4, vector, cycle_next,
                  change_time, wakeup, dt, mpc, j, c, i, sent, nMatch, nEntered,
                  sinceMatch, lastGap, nToggle, progs, nProg, lateProg, gapLate,
                  everLate, counterRead, nBusy, gaps >>

output_compare_interrupt ==
  \/ HandlerAck
  \/ HandlerLoad
  \/ HandlerAdd
  \/ HandlerSetOC
  \/ HandlerStore
  \/ HandlerInc
  \/ HandlerWrap
  \/ HandlerWake
  \/ HandlerReturn

(* -------------------------------- main -------------------------------- *)

\* Main executes an instruction: no handler is running and no interrupt is taken.
MainRuns == hpc = "idle" /\ ~Pending

\* Mutant: startup runs with the interrupt mask as it found it.
MainLockForgotten ==
  /\ MainRuns /\ mpc = "lock"
  /\ mpc' = "serial_init"
  /\ UNCHANGED << hw, cycle_next, change_time, wakeup, dt, hpc, j, c, i, sent, hist >>

\* lock ();
MainLock ==
  /\ MainRuns /\ mpc = "lock"
  /\ ibit' = 1
  /\ mpc' = "serial_init"
  /\ UNCHANGED << tcnt, toc4, tflg1, tmsk1, tctl1, pa4, vector, cycle_next,
                  change_time, wakeup, dt, hpc, j, c, i, sent, hist >>

\* serial_init ();
MainSerialInit ==
  /\ MainRuns /\ mpc = "serial_init"
  /\ mpc' = "set_handler"
  /\ UNCHANGED << hw, cycle_next, change_time, wakeup, dt, hpc, j, c, i, sent, hist >>

\* set_interrupt_handler (TIMER_OUTPUT4_VECTOR, output_compare_interrupt);
MainSetHandler ==
  /\ MainRuns /\ mpc = "set_handler"
  /\ vector' = "output_compare_interrupt"
  /\ mpc' = "init_cursor"
  /\ UNCHANGED << tcnt, toc4, tflg1, tmsk1, tctl1, pa4, ibit, cycle_next,
                  change_time, wakeup, dt, hpc, j, c, i, sent, hist >>

\* cycle_next = cycle_table;
MainInitCursor ==
  /\ MainRuns /\ mpc = "init_cursor"
  /\ cycle_next' = 0
  /\ mpc' = "tctl1"
  /\ UNCHANGED << hw, change_time, wakeup, dt, hpc, j, c, i, sent, hist >>

\* Mutant: OC4 is left disconnected from its pin.
MainSetTCTL1Off ==
  /\ MainRuns /\ mpc = "tctl1"
  /\ tctl1' = {}
  /\ mpc' = "tmsk1"
  /\ UNCHANGED << tcnt, toc4, tflg1, tmsk1, pa4, ibit, vector, cycle_next,
                  change_time, wakeup, dt, hpc, j, c, i, sent, hist >>

\* _io_ports[M6811_TCTL1] = M6811_OL4;
MainSetTCTL1 ==
  /\ MainRuns /\ mpc = "tctl1"
  /\ tctl1' = {"OL4"}
  /\ mpc' = "tmsk1"
  /\ UNCHANGED << tcnt, toc4, tflg1, tmsk1, pa4, ibit, vector, cycle_next,
                  change_time, wakeup, dt, hpc, j, c, i, sent, hist >>

\* _io_ports[M6811_TMSK1] = M6811_OC4I;
MainSetTMSK1 ==
  /\ MainRuns /\ mpc = "tmsk1"
  /\ tmsk1' = {"OC4I"}
  /\ mpc' = "read_counter"
  /\ UNCHANGED << tcnt, toc4, tflg1, tctl1, pa4, ibit, vector, cycle_next,
                  change_time, wakeup, dt, hpc, j, c, i, sent, hist >>

\* Mutant: the sum kept wider than the 16 bits of change_time.
StartTargetWide(counter) == counter + StartMargin

\* get_timer_counter () + 300, stored in an unsigned short.
StartTarget(counter) == (counter + StartMargin) % Wrap

\* change_time = get_timer_counter () + 300;
MainReadCounter ==
  /\ MainRuns /\ mpc = "read_counter"
  /\ change_time' = StartTarget(tcnt)
  /\ counterRead' = tcnt
  /\ mpc' = "set_oc4"
  /\ UNCHANGED << hw, cycle_next, wakeup, dt, hpc, j, c, i, sent, nMatch, nEntered,
                  nHandled, sinceMatch, lastGap, nToggle, progs, nProg, lateProg,
                  gapLate, everLate, nBusy,
                  handledSinceClear, gaps >>

\* Mutant: the first target computed again from the counter as it is by now.
MainSetOCFromCounter ==
  /\ MainRuns /\ mpc = "set_oc4"
  /\ toc4' = StartTarget(tcnt)
  /\ mpc' = "unlock"
  /\ progs' = Remember(progs, toc4')
  /\ nProg' = nProg + 1
  /\ UNCHANGED << tcnt, tflg1, tmsk1, tctl1, pa4, ibit, vector, cycle_next,
                  change_time, wakeup, dt, hpc, j, c, i, sent, nMatch, nEntered,
                  nHandled, sinceMatch, lastGap, nToggle, lateProg, gapLate,
                  everLate, counterRead, nBusy,
                  handledSinceClear, gaps >>

\* set_output_compare_4 (change_time);
MainSetOC ==
  /\ MainRuns /\ mpc = "set_oc4"
  /\ toc4' = change_time
  /\ mpc' = "unlock"
  /\ progs' = Remember(progs, change_time)
  /\ nProg' = nProg + 1
  /\ UNCHANGED << tcnt, tflg1, tmsk1, tctl1, pa4, ibit, vector, cycle_next,
                  change_time, wakeup, dt, hpc, j, c, i, sent, nMatch, nEntered,
                  nHandled, sinceMatch, lastGap, nToggle, lateProg, gapLate,
                  everLate, counterRead, nBusy,
                  handledSinceClear, gaps >>

\* unlock ();
MainUnlock ==
  /\ MainRuns /\ mpc = "unlock"
  /\ ibit' = 0
  /\ mpc' = "for_test"
  /\ UNCHANGED << tcnt, toc4, tflg1, tmsk1, tctl1, pa4, vector, cycle_next,
                  change_time, wakeup, dt, hpc, j, c, i, sent, hist >>

\* Mutant: the loop test lets one more iteration through.
MainForTestOneMore ==
  /\ MainRuns /\ mpc = "for_test"
  /\ mpc' = IF j <= Iterations THEN "clear" ELSE "done"
  /\ UNCHANGED << hw, cycle_next, change_time, wakeup, dt, hpc, j, c, i, sent, hist >>

\* for (...; j < 1000; ...), and the return after the loop.
MainForTest ==
  /\ MainRuns /\ mpc = "for_test"
  /\ mpc' = IF j < Iterations THEN "clear" ELSE "done"
  /\ UNCHANGED << hw, cycle_next, change_time, wakeup, dt, hpc, j, c, i, sent, hist >>

\* The history that wakeup = 0 leaves alone.
MainHist == << nMatch, nEntered, nHandled, sinceMatch, lastGap, nToggle, progs, nProg,
               lateProg, gapLate, everLate, counterRead, nBusy, gaps >>

\* Mutant: the flag is left as the last iteration found it.
MainClearNothing ==
  /\ MainRuns /\ mpc = "clear"
  /\ mpc' = "spin"
  /\ handledSinceClear' = FALSE
  /\ UNCHANGED << hw, cycle_next, change_time, wakeup, dt, hpc, j, c, i, sent,
                  MainHist >>

\* wakeup = 0;
MainClear ==
  /\ MainRuns /\ mpc = "clear"
  /\ wakeup' = 0
  /\ mpc' = "spin"
  /\ handledSinceClear' = FALSE
  /\ UNCHANGED << hw, cycle_next, change_time, dt, hpc, j, c, i, sent, MainHist >>

\* while (wakeup == 0) continue;
MainSpin ==
  /\ MainRuns /\ mpc = "spin"
  /\ mpc' = IF wakeup = 0 THEN "spin" ELSE "inc_c"
  /\ UNCHANGED << hw, cycle_next, change_time, wakeup, dt, hpc, j, c, i, sent, hist >>

\* Mutant: the iteration counter kept in a type wider than unsigned char.
MainIncCWide ==
  /\ MainRuns /\ mpc = "inc_c"
  /\ c' = c + 1
  /\ mpc' = "heartbeat"
  /\ UNCHANGED << hw, cycle_next, change_time, wakeup, dt, hpc, j, i, sent, hist >>

\* c++;
MainIncC ==
  /\ MainRuns /\ mpc = "inc_c"
  /\ c' = (c + 1) % ByteWrap
  /\ mpc' = "heartbeat"
  /\ UNCHANGED << hw, cycle_next, change_time, wakeup, dt, hpc, j, i, sent, hist >>

\* The character '\b'.
Backspace == "BS"

\* "-\\|/"[n & 3]
SpinnerChar(n) == Spinner[(n % 4) + 1]

\* if (c == 1) serial_send ('\b'); else if (c == 128) serial_send ("-\\|/"[(++i) & 3]);
MainHeartbeat ==
  /\ MainRuns /\ mpc = "heartbeat"
  /\ IF c = 1
       THEN sent' = Append(sent, Backspace) /\ i' = i
       ELSE IF c = 128
              THEN /\ i' = (i + 1) % ByteWrap
                   /\ sent' = Append(sent, SpinnerChar(i'))
              ELSE UNCHANGED << i, sent >>
  /\ mpc' = "for_inc"
  /\ UNCHANGED << hw, cycle_next, change_time, wakeup, dt, hpc, j, c, hist >>

\* Mutant: the driver loop restarts the pattern at the end of each iteration.
MainForIncRestart ==
  /\ MainRuns /\ mpc = "for_inc"
  /\ j' = (j + 1) % Wrap
  /\ cycle_next' = 0
  /\ mpc' = "for_test"
  /\ UNCHANGED << hw, change_time, wakeup, dt, hpc, c, i, sent, hist >>

\* j++
MainForInc ==
  /\ MainRuns /\ mpc = "for_inc"
  /\ j' = (j + 1) % Wrap
  /\ mpc' = "for_test"
  /\ UNCHANGED << hw, cycle_next, change_time, wakeup, dt, hpc, c, i, sent, hist >>

Startup ==
  \/ MainLock
  \/ MainSerialInit
  \/ MainSetHandler
  \/ MainInitCursor
  \/ MainSetTCTL1
  \/ MainSetTMSK1
  \/ MainReadCounter
  \/ MainSetOC
  \/ MainUnlock

Driver ==
  \/ MainForTest
  \/ MainClear
  \/ MainSpin
  \/ MainIncC
  \/ MainHeartbeat
  \/ MainForInc

main == Startup \/ Driver

(* --------------------------- specifications --------------------------- *)

\* A further match may find the driver loop as it is: waiting, or busy within the bound.
Keeping == Starting \/ Quiescent \/ nBusy < MaxBusy

\* The pulse pattern: every timing the bounds allow, until MaxMatches matches.
Next ==
  \/ Tick(Keeping /\ nMatch < MaxMatches)
  \/ WaitMatch(Keeping /\ nMatch < MaxMatches)
  \/ HandlerEntry
  \/ output_compare_interrupt
  \/ main

Spec == Init /\ [][Next]_vars

\* The pulse pattern from one startup value, with the counter running,
\* interrupts served and the CPU executing the code it is in.
FairInit == InitWith({50000})

FairSpec ==
  /\ FairInit /\ [][Next]_vars
  /\ WF_vars(WaitMatch(Keeping /\ nMatch < MaxMatches))
  /\ WF_vars(HandlerEntry \/ output_compare_interrupt)
  /\ WF_vars(main)

\* The driver loop to its end: the handler is served at once, compare matches keep
\* being raised (the counter runs), and the CPU executes the code it is in.
DriverNext ==
  \/ WaitMatch(Keeping)
  \/ HandlerEntry
  \/ output_compare_interrupt
  \/ main

\* The driver loop does not look at the counter: one startup value.
DriverInit == InitWith({0})

DriverSpec ==
  /\ DriverInit /\ [][DriverNext]_vars
  /\ WF_vars(WaitMatch(Keeping))
  /\ WF_vars(HandlerEntry \/ output_compare_interrupt)
  /\ WF_vars(main)

\* The startup sequence alone, from every value the counter can hold.
StartInit == InitWith(0 .. Wrap - 1)

StartNext ==
  \/ Tick(TRUE)
  \/ Startup

StartSpec == StartInit /\ [][StartNext]_vars

(* ------------------------------- claims ------------------------------- *)

\* Index into cycle_table (from 0) of the duration that leads from the m-th value
\* of the window progs to the next one.
StepIndex(m) == (nProg - Len(progs) + m - 1) % TABLE_SIZE(cycle_table)

\* Sum of the first k durations of the cyclic table.
RECURSIVE TableSum(_)
TableSum(k) ==
  IF k = 0 THEN 0
  ELSE TableSum(k - 1) + cycle_table[((k - 1) % TABLE_SIZE(cycle_table)) + 1]

\* C1 (zero drift): every value programmed into TOC4 is the value programmed
\* before it plus the table entry of that interrupt, modulo 2^16, whatever time
\* passed before the handler ran: V(k+1) = (Vk + cycle_table[k mod 12]) mod 2^16.
\* So the k-th value depends on the counter read at startup and on k alone.
C1_ZeroDrift ==
  /\ \A m \in 1 .. Len(progs) - 1 :
       progs[m + 1] = (progs[m] + cycle_table[StepIndex(m) + 1]) % Wrap
  /\ nProg >= 1 =>
       progs[Len(progs)] = (counterRead + 300 + TableSum(nProg - 1)) % 65536

\* C1 witness: more than a period of values was programmed, one of them wrapped
\* around 2^16, and the last handler run was served with a latency.
C1_Witness ==
  /\ nProg > TABLE_SIZE(cycle_table) + 1
  /\ \E m \in 1 .. Len(progs) - 1 : progs[m + 1] < progs[m]
  /\ hpc = "store" /\ sinceMatch > 0

\* C2 (exact edge spacing): as long as every handler run wrote TOC4 before the
\* counter reached the new target, the ticks between the k-th and the (k+1)-th
\* toggle of PA4 are exactly cycle_table[k mod 12].
C2_ExactSpacing ==
  (nToggle >= 2 /\ ~everLate) =>
    lastGap = cycle_table[((nToggle - 2) % TABLE_SIZE(cycle_table)) + 1]

\* C2 witness: a toggle one table entry after the one before it, although the
\* handler that programmed it wrote TOC4 only LatencyStep ticks after the match.
C2_Witness ==
  /\ nToggle > TABLE_SIZE(cycle_table) /\ ~everLate
  /\ sinceMatch = 0 /\ hpc = "idle"
  /\ lastGap = cycle_table[7]
  /\ nBusy > 0

\* C3 (cyclic cursor): once main has set the cursor, after M completed
\* invocations of the handler it is at index M mod 12 (one step ahead between
\* the handler's wrap test and its return), and the handler reads inside the table.
C3_CyclicCursor ==
  (cycle_next # NullCursor) =>
    /\ hpc \in {"idle", "ack", "load", "add", "setoc", "store", "inc"}
         => cycle_next = nHandled % TABLE_SIZE(cycle_table)
    /\ hpc \in {"wake", "rti"}
         => cycle_next = (nHandled + 1) % TABLE_SIZE(cycle_table)
    /\ hpc \in {"ack", "load"} => cycle_next \in 0 .. 11

\* C3 witness: thirteen invocations completed, the cursor wrapped to index 1.
C3_Witness ==
  nHandled = TABLE_SIZE(cycle_table) + 1 /\ hpc = "idle" /\ cycle_next = 1

\* C4 as claimed (wakeup handshake): no wakeup is missed or counted twice, so
\* whenever the driver loop is back spinning on a clear flag with nothing in
\* service, it has completed as many wait iterations as interrupts were handled.
C4_NoMissedWakeup == Quiescent => nHandled = j

\* C4 as amended: every invocation leaves the flag at 1 and the driver loop leaves
\* a wait only with the flag at 1; an interrupt that finds the loop waiting
\* releases exactly one iteration, and one that finds it busy (startup, between
\* the end of a wait and the next clear, an earlier one unserved or unobserved)
\* releases none: completed iterations = interrupts handled - busy arrivals.
C4_Handshake ==
  /\ hpc = "rti" => wakeup = 1
  /\ mpc = "inc_c" => wakeup = 1 \/ hpc \notin {"idle", "rti"}
  /\ Quiescent => nHandled = j + nBusy
  /\ j <= nHandled

\* C4 witness: the loop waits again after an interrupt was erased and two were counted.
C4_Witness == Quiescent /\ nBusy = 1 /\ j = 2 /\ nHandled = 3

\* C5 (startup target): once main has programmed the first compare value, TOC4
\* and change_time both hold the counter value read at init plus 300 ticks,
\* reduced into 0..65535, whatever the counter was and has become since.
C5_StartupTarget ==
  mpc = "unlock" =>
    LET sum == counterRead + 300
        expected == IF sum < 65536 THEN sum ELSE sum - 65536
    IN  /\ counterRead \in 0 .. 65535
        /\ toc4 = expected
        /\ change_time = expected
        /\ progs = << expected >>

\* C5 witness: the counter read 65535, the target wrapped to 299 and the counter
\* has moved on since it was read.
C5_Witness ==
  mpc = "unlock" /\ counterRead = 65535 /\ toc4 = 299 /\ tcnt = 119 /\ sinceMatch = 120

\* The tick deltas the specification lists for the fixed table.
ExpectedDeltas ==
  << 1000, 1000, 1000, 2000, 2000, 10000, 200, 1000, 10000, 2000, 200, 200 >>

\* C6 (fixed pattern): the differences (mod 2^16) between consecutive programmed
\* compare values, from the startup value on, are 1000, 1000, 1000, 2000, 2000,
\* 10000, 200, 1000, 10000, 2000, 200, 200 in this order; after 12 interrupts the
\* cursor is back at index 0 and the 13th difference is 1000 again.
C6_FixedPattern ==
  /\ \A m \in 1 .. Len(progs) - 1 :
       (progs[m + 1] - progs[m]) % 65536
         = ExpectedDeltas[((nProg - Len(progs) + m - 1) % 12) + 1]
  /\ (nHandled = 12 /\ hpc = "idle") => cycle_next = 0
  /\ nProg = 14 => (progs[Len(progs)] - progs[Len(progs) - 1]) % 65536 = 1000

\* C6 witness: the 13th interrupt has programmed its value, 1000 ticks on.
C6_Witness ==
  /\ nProg = 14 /\ nHandled = 13 /\ hpc = "idle" /\ cycle_next = 1
  /\ (progs[13] - progs[12]) % 65536 = 1000

\* C7 (minimum interval): every entry of cycle_table is at least 100 ticks, and
\* the duration the handler adds to change_time is the entry at the cursor as it
\* stands, so never below 100 ticks.
C7_MinimumInterval ==
  /\ \A k \in DOMAIN cycle_table : cycle_table[k] >= MinTicks
  /\ hpc = "add" => dt = cycle_table[cycle_next + 1] /\ dt >= MinTicks
  /\ hpc = "setoc" =>
       /\ (dt - change_time) % Wrap = cycle_table[cycle_next + 1]
       /\ (dt - change_time) % Wrap >= MinTicks

\* C7 witness: the handler is about to add the smallest entry, 200 ticks.
C7_Witness == hpc = "add" /\ cycle_next = 6 /\ dt = 200 /\ nHandled = 6

\* C8 (driver termination): with compare matches raised and handled, no wait of
\* the driver loop lasts forever, no iteration starts once 1000 are counted, and
\* main returns, having made exactly 1000 iterations.
C8_DriverTerminates ==
  /\ <>(mpc = "done")
  /\ [](mpc = "done" => j = 1000)
  /\ [](mpc \in {"clear", "spin", "inc_c", "heartbeat", "for_inc"} => j < 1000)
  /\ (mpc = "spin") ~> (mpc = "inc_c")

\* C8 witness: main has returned after its 1000th wait.
C8_Witness == mpc = "done" /\ j = 1000 /\ nHandled >= 1000 /\ c = 1000 % 256

\* C9 (no terminal state): after startup the compare interrupt stays enabled and
\* routed to the handler, every invocation re-arms the compare register with a
\* new target, and with the counter running the handler is entered again from
\* every state and reads every index 0..11 of the table again (as far as the
\* bound MaxMatches lets the model run).
C9_NoTerminalState ==
  /\ [](~Starting =>
          /\ "OC4I" \in tmsk1 /\ "OL4" \in tctl1
          /\ vector = "output_compare_interrupt")
  /\ [](hpc \in {"store", "inc", "wrap", "wake", "rti"} =>
          /\ nProg = nEntered + 1
          /\ toc4 = dt
          /\ hpc = "store" => toc4 # change_time)
  /\ (~Starting /\ nEntered < MaxMatches) ~> (hpc = "ack")
  /\ \A idx \in 0 .. 11 :
       (~Starting /\ nEntered <= MaxMatches - 12)
         ~> (hpc = "load" /\ cycle_next = idx)

\* C9 witness: the 16th invocation reads index 3 of the table a second time.
C9_Witness == hpc = "load" /\ cycle_next = 3 /\ nEntered = 16

\* C10 (missed match): a handler that writes the new target only after the counter
\* has reached it programs the same value as ever, and the match waits for the
\* counter to come round: the toggle follows the one before it by the table
\* entry plus 65536 ticks.  The toggles programmed in time, before and after,
\* are spaced by their table entries.
C10_MissedMatch ==
  /\ nToggle >= 2 =>
       lastGap = cycle_table[((nToggle - 2) % TABLE_SIZE(cycle_table)) + 1]
                   + (IF gapLate THEN 65536 ELSE 0)
  /\ (hpc = "store" /\ lateProg) =>
       /\ toc4 = (change_time + cycle_table[cycle_next + 1]) % Wrap
       /\ (tcnt - change_time) % Wrap >= cycle_table[cycle_next + 1]

\* C10 witness: a toggle 200 + 65536 ticks after the one before it.
C10_Witness ==
  gapLate /\ sinceMatch = 0 /\ lastGap = 65736 /\ everLate /\ nToggle >= 2

\* An OC4 match is flagged and no invocation has been entered for it yet.
Unserved == "OC4F" \in tflg1 /\ hpc # "ack"

\* C11 (no lost or duplicated interrupt): the invocations of the handler number
\* the compare matches, less the one flagged and not yet entered; the flag is
\* cleared by the acknowledge, before the compare register is rewritten, so a
\* match on the new target inside the handler stays flagged, and every flagged
\* match is followed by an invocation (at the latest after the return or unlock).
C11_OneInvocationPerMatch ==
  /\ [](nMatch = nEntered + (IF Unserved THEN 1 ELSE 0))
  /\ [](nEntered - nHandled = (IF hpc = "idle" THEN 0 ELSE 1))
  /\ [](hpc \in {"load", "add", "setoc"} => "OC4F" \notin tflg1)
  /\ [](hpc # "idle" => ibit = 1)
  /\ Unserved ~> (hpc = "ack")

\* C11 witness: the new target matched while the handler that programmed it was
\* still running; the match is flagged and waits for the return.
C11_Witness ==
  /\ hpc \in {"store", "inc", "wrap", "wake", "rti"}
  /\ "OC4F" \in tflg1 /\ nMatch = nEntered + 1 /\ nEntered >= 2
  /\ sinceMatch = 40

\* The positions of the handler, in the order of its statements.
StepOrder ==
  { << "idle", "ack" >>, << "ack", "load" >>, << "load", "add" >>,
    << "add", "setoc" >>, << "setoc", "store" >>, << "store", "inc" >>,
    << "inc", "wrap" >>, << "wrap", "wake" >>, << "wake", "rti" >>,
    << "rti", "idle" >> }

\* C12 (handler step order): an invocation goes through its steps in one order,
\* each once: acknowledge OC4F, read the duration at the cursor, add change_time
\* (mod 2^16), write TOC4, store change_time, advance and wrap the cursor, set
\* wakeup.  Each effect happens in its step and in no other; when wakeup is set
\* TOC4 and change_time hold the new target and the cursor has been advanced.
C12_StepOrder ==
  /\ [][ /\ hpc' # hpc => << hpc, hpc' >> \in StepOrder
         /\ (hpc = "ack" /\ hpc' # hpc) => "OC4F" \notin tflg1'
         /\ (hpc = "load" /\ hpc' # hpc) => dt' = cycle_table[cycle_next + 1]
         /\ (hpc = "add" /\ hpc' # hpc) => dt' = (dt + change_time) % 65536
         /\ (hpc = "setoc" /\ hpc' # hpc) => toc4' = dt
         /\ (hpc = "store" /\ hpc' # hpc) => change_time' = dt
         /\ (hpc = "inc" /\ hpc' # hpc) => cycle_next' = cycle_next + 1
         /\ (hpc = "wrap" /\ hpc' # hpc) =>
              cycle_next' = (IF cycle_next = 12 THEN 0 ELSE cycle_next)
         /\ (hpc = "wake" /\ hpc' # hpc) => wakeup' = 1
         /\ "OC4F" \in tflg1 /\ "OC4F" \notin tflg1' => hpc = "ack"
         /\ dt' # dt => hpc \in {"load", "add"}
         /\ (hpc # "idle" /\ toc4' # toc4) => hpc = "setoc"
         /\ (hpc # "idle" /\ change_time' # change_time) => hpc = "store"
         /\ (hpc # "idle" /\ cycle_next' # cycle_next) => hpc \in {"inc", "wrap"}
         /\ wakeup' > wakeup => hpc = "wake" ]_vars
  /\ [](hpc = "wake" =>
          /\ toc4 = dt /\ change_time = dt
          /\ cycle_next = (nHandled + 1) % 12
          /\ nProg = nEntered + 1)

\* C12 witness: the twelfth invocation has gone through all its steps: the new
\* target is programmed and stored, the cursor wrapped to 0, the flag set last.
C12_Witness ==
  /\ hpc = "rti" /\ nEntered = 12 /\ cycle_next = 0
  /\ toc4 = change_time /\ toc4 = dt /\ wakeup = 1
  /\ "OC4F" \notin tflg1

\* C13 (change_time mirrors the hardware): from the first write of TOC4 on,
\* change_time equals the value last written to TOC4 in every state but one:
\* inside the handler between the register write and the store to change_time,
\* where TOC4 is already the new target and change_time still the old one.
\* So they agree at every handler entry and exit and in every driver-loop step.
C13_ChangeTimeMirrors ==
  /\ (nProg >= 1 /\ hpc # "store") =>
       /\ change_time = toc4
       /\ change_time = progs[Len(progs)]
  /\ hpc = "store" =>
       /\ toc4 = progs[Len(progs)] /\ toc4 = dt
       /\ change_time = progs[Len(progs) - 1]
       /\ change_time # toc4
  /\ (~Starting \/ mpc = "unlock") => nProg >= 1

\* C13 witness: the driver loop runs after a handler exit, the target wrapped
\* around 2^16 since startup, and change_time is the value in TOC4.
C13_Witness ==
  /\ mpc = "inc_c" /\ hpc = "idle" /\ nHandled = 13
  /\ change_time = toc4 /\ toc4 = (counterRead + 300 + 30600 + 1000) % 65536
  /\ toc4 < counterRead

\* Main is past the wait of the current iteration.
Released == mpc \in {"inc_c", "heartbeat", "for_inc"}

\* C14 (wakeup implies interrupt): the driver loop reads wakeup = 1, and leaves
\* its wait, only when an invocation of the handler has completed since the
\* iteration's wakeup = 0; every iteration needs an invocation of its own, so
\* the interrupts handled number at least the waits left, and at least 1000
\* when main has returned.
C14_WakeupImpliesInterrupt ==
  /\ [][(mpc = "spin" /\ mpc' = "inc_c") =>
          /\ wakeup = 1 /\ handledSinceClear /\ hpc = "idle"
          /\ nHandled >= j + 1]_vars
  /\ []((mpc = "spin" /\ hpc = "idle" /\ wakeup = 1) => handledSinceClear)
  /\ [](Released => handledSinceClear)
  /\ [](nHandled >= j + (IF Released THEN 1 ELSE 0))
  /\ [](mpc = "done" => nHandled >= 1000)

\* C14 witness: main has returned after 1000 waits, each released by an interrupt
\* handled after its clear; one interrupt more than that was handled.
C14_Witness ==
  /\ mpc = "done" /\ j = 1000 /\ nHandled = 1001 /\ handledSinceClear
  /\ hpc = "idle" /\ nBusy = 1

\* C15 (single writer): after startup the steps of the driver loop leave the
\* cursor, change_time and TOC4 (and the handler's dt and the flag register)
\* unchanged: they change only in steps of the handler, which leave the driver's
\* j, c, i and the bytes sent unchanged.  The handler is entered only when no
\* invocation is running.  Of the variables written after startup, wakeup alone
\* is written by both: set to 1 by the handler, to 0 by the driver loop.
C15_SingleWriter ==
  /\ [][ ~Starting =>
           /\ mpc' # mpc =>
                /\ hpc = "idle" /\ hpc' = "idle"
                /\ UNCHANGED << cycle_next, change_time, toc4, dt, tflg1 >>
           /\ (cycle_next' # cycle_next \/ change_time' # change_time
                 \/ toc4' # toc4 \/ dt' # dt) =>
                /\ hpc \in {"load", "add", "setoc", "store", "inc", "wrap"}
                /\ UNCHANGED << mpc, j, c, i, sent >>
           /\ (j' # j \/ c' # c \/ i' # i \/ sent' # sent) => mpc' # mpc
           /\ wakeup' # wakeup =>
                \/ hpc = "wake" /\ wakeup' = 1 /\ mpc' = mpc
                \/ mpc = "clear" /\ wakeup' = 0 /\ hpc = "idle"
           /\ nEntered' # nEntered => hpc = "idle" /\ nEntered = nHandled ]_vars
  /\ [](hpc # "idle" => ~Pending /\ nEntered = nHandled + 1)

\* C15 witness: the handler is between its write of TOC4 and its store to
\* change_time while the driver loop, which has cleared a flag the handler set
\* twice, stands in its wait.
C15_Witness ==
  /\ mpc = "spin" /\ j = 2 /\ wakeup = 0 /\ hpc = "store" /\ cycle_next = 2
  /\ toc4 # change_time

\* C16 (startup ordering): from lock() to unlock() interrupts are masked and no
\* invocation of the handler is entered, although OC4I is enabled before the
\* first target is computed and the first match may come before unlock().  The
\* first invocation finds the cursor at index 0, change_time at the startup
\* target (counter read + 300, mod 2^16) and TOC4 programmed with it.
C16_StartupOrdering ==
  /\ Starting => nEntered = 0 /\ hpc = "idle"
  /\ (Starting /\ mpc # "lock") => ibit = 1 /\ ~Pending
  /\ mpc \in {"read_counter", "set_oc4", "unlock"} =>
       /\ "OC4I" \in tmsk1 /\ vector = "output_compare_interrupt"
       /\ cycle_next = 0
  /\ mpc = "read_counter" => nProg = 0 /\ counterRead = -1
  /\ (nEntered = 1 /\ hpc = "ack") =>
       /\ ~Starting
       /\ cycle_next = 0
       /\ change_time = (counterRead + 300) % 65536
       /\ toc4 = change_time
       /\ nProg = 1 /\ progs = << change_time >>

\* C16 witness: the first target matched before unlock(): the interrupt is
\* flagged and enabled, and held off by the I bit.
C16_Witness ==
  /\ mpc = "unlock" /\ "OC4F" \in tflg1 /\ "OC4I" \in tmsk1 /\ ibit = 1
  /\ nMatch = 1 /\ nEntered = 0 /\ sinceMatch = 60

\* C17 as claimed (acknowledge touches one channel only): the acknowledge step
\* clears OC4F and leaves every other pending flag of TFLG1 as it was.
C17_AckOneChannel ==
  [][(hpc = "ack" /\ hpc' = "load") => tflg1' = tflg1 \ {"OC4F"}]_vars

\* C17, what the step does: the value read from TFLG1 has a 1 for every pending
\* flag, the or adds OC4F, and the store clears every flag written as 1: after
\* the acknowledge no flag of the register is pending, whichever were before.
C17_AckClearsAll ==
  [][(hpc = "ack" /\ hpc' = "load") =>
       /\ "OC4F" \in tflg1
       /\ AckValue(tflg1) = tflg1
       /\ tflg1' = {}]_vars

\* C17 witness: the handler is about to acknowledge OC4F while the flags of
\* channels 3 and 5, set when the counter passed 0xFFFF, are pending too.
C17_Witness ==
  /\ hpc = "ack" /\ tflg1 = {"OC3F", "OC4F", "OC5F"} /\ nEntered >= 2

\* Sum of the elements of a sequence of numbers.
RECURSIVE SumSeq(_)
SumSeq(s) == IF s = << >> THEN 0 ELSE Head(s) + SumSeq(Tail(s))

\* C18 (waveform period): the twelve table entries sum to 30600 ticks, so the
\* value programmed after M+12 interrupts is the value programmed after M
\* interrupts plus 30600 (mod 2^16); the pin toggles once per match, its level
\* is the parity of the toggles so far, hence the same after toggle k and after
\* toggle k+12; and while no handler wrote TOC4 late, twelve consecutive toggle
\* spacings add up to 30600 ticks.
C18_WaveformPeriod ==
  /\ SumSeq(cycle_table) = 30600
  /\ Len(cycle_table) = 12
  /\ Len(progs) = 13 => progs[13] = (progs[1] + 30600) % 65536
  /\ nToggle = nMatch
  /\ pa4 = nToggle % 2
  /\ (Len(gaps) = 12 /\ ~everLate) => SumSeq(gaps) = 30600

\* C18 witness: the fourteenth toggle, 30600 ticks after the second and at the
\* same level; the programmed value is 30600 past the one of twelve interrupts
\* before and has wrapped around 2^16 in between.
C18_Witness ==
  /\ nToggle = 14 /\ pa4 = 0 /\ sinceMatch = 0 /\ ~everLate
  /\ Len(gaps) = 12 /\ SumSeq(gaps) = 30600 /\ gaps[1] = 1000 /\ gaps[12] = 1000
  /\ Len(progs) = 13 /\ progs[13] = progs[1] + 30600 - 65536

\* The iterations (counted from 1) in which the driver loop sends a byte.
Beats == {1, 128, 257, 384, 513, 640, 769, 896}

\* The bytes of a whole run, in order.
Heartbeat == << "BS", "\\", "BS", "|", "BS", "/", "BS", "-" >>

\* Iterations whose heartbeat step is done.
Beaten == j + (IF mpc = "for_inc" THEN 1 ELSE 0)

\* C19 (heartbeat cadence): c is the iteration number modulo 256; a byte is sent
\* only by the heartbeat step of main, in the iterations where c becomes 1 (a
\* backspace) or 128 (the next spinner character): iterations 1, 128, 257, 384,
\* 513, 640, 769 and 896.  The 1000 iterations send exactly 8 bytes: backspace
\* and spinner character in turn, the spinner characters in the order
\* backslash, bar, slash, dash.  No byte is sent while the handler runs.
C19_HeartbeatCadence ==
  /\ [][sent' # sent =>
          /\ mpc = "heartbeat" /\ hpc = "idle" /\ hpc' = "idle"
          /\ c \in {1, 128} /\ (j + 1) \in Beats
          /\ Len(sent') = Len(sent) + 1
          /\ c = 1 => sent'[Len(sent')] = "BS"
          /\ c = 128 => sent'[Len(sent')] \in {"-", "\\", "|", "/"}]_vars
  /\ [](c = (j + (IF mpc \in {"heartbeat", "for_inc"} THEN 1 ELSE 0)) % 256)
  /\ [](c \in 0 .. 255)
  /\ [](Len(sent) = Cardinality({n \in Beats : n <= Beaten}))
  /\ [](sent = SubSeq(Heartbeat, 1, Len(sent)))
  /\ [](mpc = "done" => sent = Heartbeat /\ Len(sent) = 8)

\* C19 witness: main has returned and the eight bytes are out, the dash last.
C19_Witness ==
  /\ mpc = "done" /\ Len(sent) = 8 /\ sent[8] = "-" /\ sent[2] = "\\" /\ i = 4
  /\ c = 232

====
